---- MODULE Spec2Model ----
(***************************************************************************)
(* A model of the three artifacts of the repository:                       *)
(*   - the Docker Compose manifest (services, volumes, depends_on),        *)
(*   - the DashboardGrid React component,                                  *)
(*   - the multi-document YAML configuration fixture config.test.yaml.     *)
(* The three are independent; the model interleaves their steps.           *)
(***************************************************************************)
EXTENDS Naturals, Integers, Sequences, FiniteSets, TLC

VARIABLES
    started,    \* Compose: the services that have been started
    writers,    \* Compose: for every mounted storage, the services that wrote to it
    memo,       \* DashboardGrid: the useMemo cell holding gridLayouts
    tree,       \* DashboardGrid: the element returned by the last render
    renders,    \* DashboardGrid: number of renders so far
    logged,     \* DashboardGrid: number of console.log calls so far
    cursor,     \* fixture: number of YAML documents read so far
    seen,       \* fixture: the section kinds of the documents read, in order
    registry,   \* fixture: the resources registered by the documents read
    bound       \* fixture: the bindings of the pipes resolved so far, in order

vars == <<started, writers, memo, tree, renders, logged, cursor, seen, registry, bound>>
composeVars == <<started, writers>>
gridVars == <<memo, tree, renders, logged>>
fixtureVars == <<cursor, seen, registry, bound>>

(***************************************************************************)
(* Bounds of the model.                                                    *)
(***************************************************************************)
MaxRenders == 3

(***************************************************************************)
(* Docker Compose manifest.                                                *)
(***************************************************************************)

\* top-level volumes: the named volumes the file declares
DeclaredVolumes == {"data"}

\* the keys of services:
ServiceNames == {"bootstrap", "wren-engine", "wren-ai-service", "ibis-server", "qdrant"}

\* depends_on with a cycle between bootstrap and wren-engine
DependsOnCyclic(s) ==
    CASE s = "bootstrap" -> {"wren-engine"}
      [] s = "wren-engine" -> {"bootstrap"}
      [] s = "wren-ai-service" -> {"qdrant"}
      [] OTHER -> {}

\* depends_on with the entry of wren-ai-service lost
DependsOnDropped(s) ==
    CASE s = "wren-engine" -> {"bootstrap"}
      [] OTHER -> {}

\* services.<s>.depends_on (short syntax: the dependency must have been started)
DependsOn(s) ==
    CASE s = "wren-engine" -> {"bootstrap"}
      [] s = "wren-ai-service" -> {"qdrant"}
      [] OTHER -> {}

\* services.<s>.volumes with the :ro of wren-ai-service's data mount lost
ServiceVolumesRw(s) ==
    CASE s = "bootstrap" -> {<<"data", "/app/data">>}
      [] s = "wren-engine" -> {<<"data", "/usr/src/app/etc">>}
      [] s = "wren-ai-service" ->
            {<<"${PROJECT_DIR}/config.yaml", "/app/config.yaml", "ro">>,
             <<"${PROJECT_DIR}/data", "/app/data">>}
      [] OTHER -> {}

\* services.<s>.volumes; a short-syntax entry SOURCE:TARGET[:MODE] is held
\* as the tuple of its colon-separated fields
ServiceVolumes(s) ==
    CASE s = "bootstrap" -> {<<"data", "/app/data">>}
      [] s = "wren-engine" -> {<<"data", "/usr/src/app/etc">>}
      [] s = "wren-ai-service" ->
            {<<"${PROJECT_DIR}/config.yaml", "/app/config.yaml", "ro">>,
             <<"${PROJECT_DIR}/data", "/app/data", "ro">>}
      [] OTHER -> {}

MountSource(m) == m[1]
MountTarget(m) == m[2]
\* a mount is read-only exactly when its third field is ro
MountReadOnly(m) == Len(m) >= 3 /\ m[3] = "ro"
\* a source that is a declared volume is a named volume, any other a bind mount
IsNamedVolume(m) == MountSource(m) \in DeclaredVolumes

\* every storage some service mounts
Storage == UNION {{MountSource(m) : m \in ServiceVolumes(s)} : s \in ServiceNames}

\* the services that mount storage v writable
WritableBy(v) ==
    {s \in ServiceNames :
        \E m \in ServiceVolumes(s) : MountSource(m) = v /\ ~MountReadOnly(m)}

\* the transitive closure of depends_on from s, in at most |services| rounds
RECURSIVE Reach(_, _)
Reach(S, n) ==
    IF n = 0 THEN S
    ELSE Reach(S \cup UNION {DependsOn(t) : t \in S}, n - 1)

DependsOnClosure(s) == Reach(DependsOn(s), Cardinality(ServiceNames))

\* compose up starts a service once every service it depends on is started
Start(s) ==
    /\ s \notin started
    /\ DependsOn(s) \subseteq started
    /\ started' = started \cup {s}
    /\ UNCHANGED <<writers, gridVars, fixtureVars>>

\* a started service writes to a storage it mounts without :ro
Write(s, m) ==
    /\ s \in started
    /\ m \in ServiceVolumes(s)
    /\ ~MountReadOnly(m)
    /\ s \notin writers[MountSource(m)]
    /\ writers' = [writers EXCEPT ![MountSource(m)] = @ \cup {s}]
    /\ UNCHANGED <<started, gridVars, fixtureVars>>

ComposeInit ==
    /\ started = {}
    /\ writers = [v \in Storage |-> {}]

(***************************************************************************)
(* DashboardGrid component.                                                *)
(***************************************************************************)

\* GridLayout props
Cols == 12
MarginPx == 16
RowHeight == 30
Width == 768

\* <div className="adm-pin-item">text</div>
AdmPinItem(text) ==
    [type |-> "div", props |-> [className |-> "adm-pin-item"], children |-> <<text>>]

\* the descriptor array with cell b moved one column to the left
GridLayoutsFactoryOverlap ==
    << [id |-> "a", layout |-> [x |-> 0, y |-> 0, w |-> 6, h |-> 6],
        render |-> AdmPinItem("a")],
       [id |-> "b", layout |-> [x |-> 5, y |-> 0, w |-> 6, h |-> 6],
        render |-> AdmPinItem("b")] >>

\* the array the useMemo factory returns
GridLayoutsFactory ==
    << [id |-> "a", layout |-> [x |-> 0, y |-> 0, w |-> 6, h |-> 6],
        render |-> AdmPinItem("a")],
       [id |-> "b", layout |-> [x |-> 6, y |-> 0, w |-> 6, h |-> 6],
        render |-> AdmPinItem("b")] >>

\* a memo cell whose later renders append the factory's items to the cached array
UseMemoPush(m, factory) ==
    [valid |-> TRUE, value |-> IF m.valid THEN m.value \o factory ELSE factory]

\* useMemo(factory, []): the factory runs on the first render only, every
\* later render returns the cached value
UseMemo(m, factory) ==
    IF m.valid THEN m ELSE [valid |-> TRUE, value |-> factory]

\* the map with its result reversed
GridsReversed(items) ==
    [i \in 1..Len(items) |->
        [type |-> "div",
         key |-> items[Len(items) + 1 - i].id,
         props |-> [dataGrid |-> items[Len(items) + 1 - i].layout],
         children |-> <<items[Len(items) + 1 - i].render>>]]

\* gridLayouts.map(item => <div key={item.id} data-grid={item.layout}>{item.render}</div>)
Grids(items) ==
    [i \in 1..Len(items) |->
        [type |-> "div",
         key |-> items[i].id,
         props |-> [dataGrid |-> items[i].layout],
         children |-> <<items[i].render>>]]

\* the element DashboardGrid returns
Element(grids) ==
    [type |-> "StyledDashboardGrid",
     props |-> [className |-> "mt-12"],
     children |->
        << [type |-> "GridLayout",
            props |-> [className |-> "layout", cols |-> Cols,
                       margin |-> <<MarginPx, MarginPx>>,
                       rowHeight |-> RowHeight, width |-> Width],
            children |-> grids] >>]

\* one call of DashboardGrid()
Render ==
    /\ renders < MaxRenders
    /\ memo' = UseMemo(memo, GridLayoutsFactory)
    /\ tree' = Element(Grids(memo'.value))
    /\ logged' = logged + 2
    /\ renders' = renders + 1
    /\ UNCHANGED <<composeVars, fixtureVars>>

\* before the first render: nothing memoised, nothing returned
GridInit ==
    /\ memo = [valid |-> FALSE, value |-> <<>>]
    /\ tree = [type |-> "none", props |-> [className |-> ""], children |-> <<>>]
    /\ renders = 0
    /\ logged = 0

\* the GridLayout element of the returned tree, and what it was given
GridLayoutElement == tree.children[1]
GridChildren == GridLayoutElement.children

(***************************************************************************)
(* YAML fixture config.test.yaml: six documents separated by ---.          *)
(***************************************************************************)

\* the llm document with its model renamed
LlmDocRenamed ==
    [type |-> "llm",
     provider |-> "openai_llm",
     models |-> << [model |-> "gpt-4o",
                    kwargs |-> [temperature |-> 0, n |-> 1, max_tokens |-> 4096,
                                response_format |-> [type |-> "json_object"]]] >>,
     api_base |-> "https://api.openai.com/v1"]

LlmDoc ==
    [type |-> "llm",
     provider |-> "openai_llm",
     models |-> << [model |-> "gpt-4o-mini",
                    kwargs |-> [temperature |-> 0, n |-> 1, max_tokens |-> 4096,
                                response_format |-> [type |-> "json_object"]]] >>,
     api_base |-> "https://api.openai.com/v1"]

\* the embedder document with the dimension of a smaller embedding model
EmbedderDocSmallDim ==
    [type |-> "embedder",
     provider |-> "openai_embedder",
     models |-> << [model |-> "text-embedding-3-large", dimension |-> 1536] >>,
     api_base |-> "https://api.openai.com/v1",
     timeout |-> 120]

EmbedderDoc ==
    [type |-> "embedder",
     provider |-> "openai_embedder",
     models |-> << [model |-> "text-embedding-3-large", dimension |-> 3072] >>,
     api_base |-> "https://api.openai.com/v1",
     timeout |-> 120]

EngineDoc ==
    [type |-> "engine",
     provider |-> "wren_ui",
     endpoint |-> "http://localhost:3000"]

DocumentStoreDoc ==
    [type |-> "document_store",
     provider |-> "qdrant",
     location |-> "http://localhost:6333",
     embedding_model_dim |-> 3072,
     timeout |-> 120]

PipelineDoc ==
    [type |-> "pipeline",
     pipes |-> <<
        [name |-> "indexing",
         embedder |-> "openai_embedder.text-embedding-3-large",
         document_store |-> "qdrant"],
        [name |-> "retrieval",
         llm |-> "openai_llm.gpt-4o-mini",
         embedder |-> "openai_embedder.text-embedding-3-large",
         document_store |-> "qdrant"],
        [name |-> "historical_question_retrieval",
         embedder |-> "openai_embedder.text-embedding-3-large",
         document_store |-> "qdrant"],
        [name |-> "sql_generation", llm |-> "openai_llm.gpt-4o-mini", engine |-> "wren_ui"],
        [name |-> "sql_correction", llm |-> "openai_llm.gpt-4o-mini", engine |-> "wren_ui"],
        [name |-> "followup_sql_generation", llm |-> "openai_llm.gpt-4o-mini",
         engine |-> "wren_ui"],
        [name |-> "sql_answer", llm |-> "openai_llm.gpt-4o-mini", engine |-> "wren_ui"],
        [name |-> "sql_explanation", llm |-> "openai_llm.gpt-4o-mini"],
        [name |-> "sql_regeneration", llm |-> "openai_llm.gpt-4o-mini", engine |-> "wren_ui"],
        [name |-> "semantics_description", llm |-> "openai_llm.gpt-4o-mini"],
        [name |-> "relationship_recommendation", llm |-> "openai_llm.gpt-4o-mini",
         engine |-> "wren_ui"],
        [name |-> "user_guide_assistance", llm |-> "openai_llm.gpt-4o-mini"],
        [name |-> "data_assistance", llm |-> "openai_llm.gpt-4o-mini"] >>]

\* the last document has no type key: its only key is settings
SettingsDoc ==
    [settings |->
        [host |-> "127.0.0.1",
         port |-> 5556,
         column_indexing_batch_size |-> 50,
         doc_endpoint |-> "https://docs.getwren.ai",
         is_oss |-> TRUE,
         table_retrieval_size |-> 10,
         table_column_retrieval_size |-> 1000,
         query_cache_maxsize |-> 1000,
         query_cache_ttl |-> 3600,
         langfuse_host |-> "https://cloud.langfuse.com",
         langfuse_enable |-> FALSE,
         logging_level |-> "INFO",
         development |-> FALSE]]

\* the file with its last document cut off
DocumentsTruncated ==
    <<LlmDoc, EmbedderDoc, EngineDoc, DocumentStoreDoc, PipelineDoc>>

\* the documents of the file, in file order
Documents ==
    <<LlmDoc, EmbedderDoc, EngineDoc, DocumentStoreDoc, PipelineDoc, SettingsDoc>>

\* the section a document is: its type, or settings for the document keyed so
DocKind(d) ==
    IF "type" \in DOMAIN d THEN d.type
    ELSE IF "settings" \in DOMAIN d THEN "settings"
    ELSE "unknown"

\* the name a pipe uses for a model: provider.model
ModelKey(provider, model) == provider \o "." \o model

\* the registry with document d's resources added
Register(reg, d) ==
    CASE DocKind(d) = "llm" ->
            [reg EXCEPT !.llm =
                @ \cup {ModelKey(d.provider, d.models[i].model) : i \in DOMAIN d.models}]
      [] DocKind(d) = "embedder" ->
            [reg EXCEPT !.embedder =
                @ \cup {[key |-> ModelKey(d.provider, d.models[i].model),
                         dimension |-> d.models[i].dimension] : i \in DOMAIN d.models}]
      [] DocKind(d) = "engine" ->
            [reg EXCEPT !.engine = @ \cup {d.provider}]
      [] DocKind(d) = "document_store" ->
            [reg EXCEPT !.document_store =
                @ \cup {[provider |-> d.provider, dimension |-> d.embedding_model_dim]}]
      [] DocKind(d) = "pipeline" ->
            [reg EXCEPT !.pipes = @ \o d.pipes]
      [] OTHER -> reg

\* how a pipe's reference to a resource of one kind resolves
Resolve(p, kind, names) ==
    IF kind \notin DOMAIN p THEN "absent"
    ELSE IF p[kind] \in names THEN "resolved"
    ELSE "unresolved"

\* the binding of pipe p against the registry
Bind(reg, p) ==
    [name |-> p.name,
     llm |-> Resolve(p, "llm", reg.llm),
     embedder |-> Resolve(p, "embedder", {e.key : e \in reg.embedder}),
     engine |-> Resolve(p, "engine", reg.engine),
     document_store |->
        Resolve(p, "document_store", {s.provider : s \in reg.document_store}),
     embedder_dim |->
        IF "embedder" \in DOMAIN p
        THEN {e.dimension : e \in {f \in reg.embedder : f.key = p.embedder}}
        ELSE {},
     store_dim |->
        IF "document_store" \in DOMAIN p
        THEN {s.dimension :
                s \in {t \in reg.document_store : t.provider = p.document_store}}
        ELSE {}]

\* the next document of the file is read and registered
ReadDocument ==
    /\ cursor < Len(Documents)
    /\ cursor' = cursor + 1
    /\ seen' = Append(seen, DocKind(Documents[cursor + 1]))
    /\ registry' = Register(registry, Documents[cursor + 1])
    /\ UNCHANGED <<bound, composeVars, gridVars>>

\* once the whole file is read, the next pipe is bound to its resources
BindPipe ==
    /\ cursor = Len(Documents)
    /\ Len(bound) < Len(registry.pipes)
    /\ bound' = Append(bound, Bind(registry, registry.pipes[Len(bound) + 1]))
    /\ UNCHANGED <<cursor, seen, registry, composeVars, gridVars>>

FixtureInit ==
    /\ cursor = 0
    /\ seen = <<>>
    /\ registry = [llm |-> {}, embedder |-> {}, engine |-> {},
                   document_store |-> {}, pipes |-> <<>>]
    /\ bound = <<>>

(***************************************************************************)
(* The specifications.                                                     *)
(***************************************************************************)
Init == ComposeInit /\ GridInit /\ FixtureInit

Next ==
    \/ \E s \in ServiceNames : Start(s)
    \/ \E s \in ServiceNames : \E m \in ServiceVolumes(s) : Write(s, m)
    \/ Render
    \/ ReadDocument
    \/ BindPipe

Spec == Init /\ [][Next]_vars

\* compose up keeps starting services while one can be started
FairSpec == Spec /\ \A s \in ServiceNames : WF_vars(Start(s))

(***************************************************************************)
(* Properties.                                                             *)
(***************************************************************************)

\* C1: the children given to GridLayout are the descriptors mapped one-to-one
\* and in order: as many children as descriptors, the i-th child keyed by the
\* i-th descriptor's id, carrying its layout as data-grid and holding its
\* render element as only content.
C1_ChildrenMapDescriptors ==
    renders >= 1 =>
        /\ GridLayoutElement.type = "GridLayout"
        /\ Len(GridChildren) = Len(memo.value)
        /\ \A i \in 1..Len(memo.value) :
              /\ GridChildren[i].key = memo.value[i].id
              /\ GridChildren[i].props.dataGrid = memo.value[i].layout
              /\ GridChildren[i].children = <<memo.value[i].render>>

C1_Witness ==
    /\ renders >= 1
    /\ Len(GridChildren) = 2
    /\ GridChildren[1].key = "a"
    /\ GridChildren[2].key = "b"

\* C2: once rendered, the descriptor list holds exactly the two descriptors
\* a and b, and no later render changes it.
C2_DescriptorsFixed ==
    /\ [](memo.valid =>
            /\ Len(memo.value) = 2
            /\ memo.value[1].id = "a"
            /\ memo.value[2].id = "b")
    /\ [][memo.valid => memo'.value = memo.value]_vars

C2_Witness ==
    /\ renders >= 2
    /\ memo.valid
    /\ Len(memo.value) = 2

\* C3 as stated: no storage is ever written by more than one service.
C3_NoSharedWritableStorage ==
    \A v \in Storage : Cardinality(writers[v]) <= 1

\* C3 amended: the named volume data is mounted writable by bootstrap and
\* wren-engine and by no other service, every other mount is read-only; so
\* data can be written by these two services and no other storage by any.
C3_OnlyDataIsShared ==
    /\ WritableBy("data") = {"bootstrap", "wren-engine"}
    /\ \A v \in Storage :
          /\ v # "data" => WritableBy(v) = {}
          /\ writers[v] \subseteq (IF v = "data" THEN {"bootstrap", "wren-engine"} ELSE {})

C3_Witness ==
    writers["data"] = {"bootstrap", "wren-engine"}

\* the six sections C4 names
SectionKinds == {"llm", "embedder", "engine", "document_store", "pipeline", "settings"}

\* C4: the documents of the fixture are exactly the six sections, each once:
\* no section is read twice, no document of another kind is read, and when
\* the file is read to its end every one of the six has been read.
C4_ExactlySixSections ==
    /\ \A i, j \in DOMAIN seen : i # j => seen[i] # seen[j]
    /\ \A i \in DOMAIN seen : seen[i] \in SectionKinds
    /\ cursor = Len(Documents) => {seen[i] : i \in DOMAIN seen} = SectionKinds

C4_Witness ==
    /\ cursor = Len(Documents)
    /\ Len(seen) = 6

\* C5: wren-engine is started only when bootstrap is, wren-ai-service only
\* when qdrant is, and bootstrap, qdrant and ibis-server can be started in
\* every state in which they are not yet started.
C5_StartRespectsDependsOn ==
    /\ "wren-engine" \in started => "bootstrap" \in started
    /\ "wren-ai-service" \in started => "qdrant" \in started
    /\ \A s \in {"bootstrap", "qdrant", "ibis-server"} :
          s \notin started => ENABLED Start(s)

C5_Witness ==
    /\ "wren-engine" \in started
    /\ "wren-ai-service" \in started
    /\ "ibis-server" \notin started

\* C6: every reference of every bound pipe resolves: no llm, embedder, engine
\* or document_store reference is left unresolved.
C6_BindingsResolve ==
    \A i \in DOMAIN bound :
        /\ bound[i].llm # "unresolved"
        /\ bound[i].embedder # "unresolved"
        /\ bound[i].engine # "unresolved"
        /\ bound[i].document_store # "unresolved"

C6_Witness ==
    /\ Len(bound) = 13
    /\ \E i \in DOMAIN bound : bound[i].llm = "resolved" /\ bound[i].engine = "resolved"
    /\ \E i \in DOMAIN bound :
          bound[i].embedder = "resolved" /\ bound[i].document_store = "resolved"

\* C7: the descriptors form a well-formed layout for the columns of the
\* GridLayout: distinct ids, every cell inside the grid with positive size,
\* no two cells overlapping.
C7_LayoutWellFormed ==
    renders >= 1 =>
        LET items == memo.value
            cols == GridLayoutElement.props.cols
            L(i) == items[i].layout
        IN  /\ cols = 12
            /\ \A i, j \in DOMAIN items : i # j => items[i].id # items[j].id
            /\ \A i \in DOMAIN items :
                  /\ L(i).x >= 0 /\ L(i).y >= 0
                  /\ L(i).w >= 1 /\ L(i).h >= 1
                  /\ L(i).x + L(i).w <= cols
            /\ \A i, j \in DOMAIN items :
                  i # j =>
                    \/ L(i).x + L(i).w <= L(j).x
                    \/ L(j).x + L(j).w <= L(i).x
                    \/ L(i).y + L(i).h <= L(j).y
                    \/ L(j).y + L(j).h <= L(i).y

C7_Witness ==
    /\ renders >= 1
    /\ Len(memo.value) = 2
    /\ memo.value[1].layout.x + memo.value[1].layout.w = memo.value[2].layout.x
    /\ memo.value[2].layout.x + memo.value[2].layout.w = GridLayoutElement.props.cols

\* C8: every pipe bound to an embedder and a document store gets one
\* dimension from each, and the two are equal.
C8_DimensionsAgree ==
    \A i \in DOMAIN bound :
        (bound[i].embedder # "absent" /\ bound[i].document_store # "absent") =>
            /\ Cardinality(bound[i].embedder_dim) = 1
            /\ bound[i].embedder_dim = bound[i].store_dim

C8_Witness ==
    {bound[i].name : i \in {j \in DOMAIN bound :
        bound[j].embedder = "resolved" /\ bound[j].document_store = "resolved"}}
    = {"indexing", "retrieval", "historical_question_retrieval"}

\* C9: depends_on names declared services only and has no cycle, and under
\* weak fairness of every start all five services are eventually started.
C9_AllEventuallyStarted ==
    /\ [](\A s \in ServiceNames :
            DependsOn(s) \subseteq ServiceNames /\ s \notin DependsOnClosure(s))
    /\ <>(started = ServiceNames)

C9_Witness ==
    /\ started = ServiceNames
    /\ Cardinality(started) = 5

====
